---- MODULE Spec2Model ----
(***************************************************************************)
(* Model of src/lib/object-context.ts: ScopedObjectContextDef (the scope   *)
(* definition with its dependency analysis) and ScopedObjectContext (the   *)
(* scope resolver: create, get, needsUpdate, forEach, selectProvider,      *)
(* selectFactory).                                                         *)
(*                                                                         *)
(* A chain of scopes is kept root first: scope 1 has no parent, the parent *)
(* of scope i is scope i-1, and the definition of scope i has the          *)
(* definition of scope i-1 as its parent definition.                       *)
(***************************************************************************)
EXTENDS Integers, Sequences, FiniteSets, TLC

VARIABLES
    chain,      \* Seq of scope definitions, root first (ScopedObjectContext._def)
    cache,      \* Seq of name -> materialized object (ScopedObjectContext._namedObjects)
    lastCall,   \* the last operation and what it returned or threw
    pending     \* the calls in progress, when an operation is taken step by step

vars == <<chain, cache, lastCall, pending>>

(***************************************************************************)
(* Bounds and program constants.                                           *)
(***************************************************************************)
\* Default ancestor-hop budget of getTypeDef/getProviderDef/getNamedObjectDef.
DefaultMaxDepth == 32

\* Longest chain of definitions built when only definitions are constructed.
MaxDefs == 2

\* Longest chain of definitions built for the lookups by name.
MaxLookupDefs == 3

(***************************************************************************)
(* JS values.  Every value is a record of the same shape:                  *)
(*   k    : "null" | "num" | "bool" | "str" | "obj" | "arr" | "uri" |      *)
(*          "made"                                                         *)
(*   s    : the characters of a string                                     *)
(*   t    : the "_type" tag of an object ("" when it has none)             *)
(*   n    : the number of a "num", 1 or 0 for the "bool" true or false;    *)
(*          for "made", the scope whose catalog built it                   *)
(*   kids : the property values of an object other than "_type", or the    *)
(*          elements of an array; for "made", the input it was built from; *)
(*          for "uri", the protocol (its path is s)                        *)
(***************************************************************************)
Null == [k |-> "null", s |-> <<>>, t |-> "", n |-> 0, kids |-> <<>>]
Num(n) == [k |-> "num", s |-> <<>>, t |-> "", n |-> n, kids |-> <<>>]
Str(s) == [k |-> "str", s |-> s, t |-> "", n |-> 0, kids |-> <<>>]
Obj(t, kids) == [k |-> "obj", s |-> <<>>, t |-> t, n |-> 0, kids |-> kids]
Arr(kids) == [k |-> "arr", s |-> <<>>, t |-> "", n |-> 0, kids |-> kids]
Bool(b) ==
    [k |-> "bool", s |-> <<>>, t |-> "", n |-> IF b THEN 1 ELSE 0, kids |-> <<>>]
\* The Uri object that Uri.tryParse yields for "<protocol>:<path>".
Uri(protocol, path) ==
    [k |-> "uri", s |-> path, t |-> "", n |-> 0, kids |-> <<Str(protocol)>>]

\* typeof v, as JavaScript answers it (typeof null is 'object', as is an array's).
TypeOf(v) ==
    CASE v.k = "str" -> "string"
      [] v.k = "num" -> "number"
      [] v.k = "bool" -> "boolean"
      [] OTHER -> "object"

\* What a builder (factory.create) or a resolver (provider.provide) of the
\* catalog of scope `by` returns for `input` (the parsed reference or
\* references for a resolver): a deterministic function of the catalog and
\* the input.
Made(kind, by, input) ==
    [k |-> "made", s |-> <<>>, t |-> kind, n |-> by, kids |-> <<input>>]

(***************************************************************************)
(* Uri.tryParse: "<protocol>:<path>", the protocol being the characters    *)
(* before the first colon; a string with no colon, or with nothing before  *)
(* it, is not a reference.                                                 *)
(***************************************************************************)
RECURSIVE FirstColon(_, _)
FirstColon(s, i) ==
    IF i > Len(s) THEN 0
    ELSE IF s[i] = ":" THEN i
    ELSE FirstColon(s, i + 1)

TryParse(s) ==
    LET c == FirstColon(s, 1) IN
    IF c > 1
    THEN [success |-> TRUE, protocol |-> SubSeq(s, 1, c - 1),
          path |-> SubSeq(s, c + 1, Len(s))]
    ELSE [success |-> FALSE, protocol |-> <<>>, path |-> <<>>]

(***************************************************************************)
(* ObjectContextDependency: the three dependency sets of a declaration.    *)
(***************************************************************************)
NoDeps ==
    [typeDependencies |-> {}, protocolDependencies |-> {},
     objectDependencies |-> {}]

RECURSIVE analyzeDirectDependencies(_, _)
\* analyzeDirectDependencies(dep, jsValue), on a : [dep, threw]; the result is
\* the dependency record after the call and whether the call threw.
\* A null is typeof 'object', and reading null['_type'] throws a TypeError.
\* Object.getOwnPropertyNames also yields "_type" (a tag is a string with no
\* colon here, so it adds nothing) and an array's "length" (a number).
analyzeDirectDependencies(a, jsValue) ==
    IF a.threw THEN a
    ELSE IF TypeOf(jsValue) = "string" THEN
        LET ret == TryParse(jsValue.s) IN
        IF ret.success
        THEN [a EXCEPT !.dep.protocolDependencies = @ \cup {ret.protocol}]
        ELSE a
    ELSE IF TypeOf(jsValue) = "object" THEN
        IF jsValue.k = "null" THEN [a EXCEPT !.threw = TRUE]
        ELSE
            LET a1 == IF jsValue.t # ""
                      THEN [a EXCEPT !.dep.typeDependencies = @ \cup {jsValue.t}]
                      ELSE a
                walk[i \in 0..Len(jsValue.kids)] ==
                    IF i = 0 THEN a1
                    ELSE analyzeDirectDependencies(walk[i - 1], jsValue.kids[i])
            IN walk[Len(jsValue.kids)]
    ELSE a

(***************************************************************************)
(* Declarations.                                                           *)
(*   TypeDef       [typeName, ctor]                                        *)
(*   ProviderDef   [protocol, ctor]                                        *)
(*   NamedObjectDef [name, value, direct, dependencies]: `direct` is the   *)
(*     set of named objects the declaration refers to, which the fresh     *)
(*     ObjectContextDependency holds as its object dependencies.           *)
(* A definition is [typeDefs, providerDefs, objectDefs, analysed]; the     *)
(* parent of definition i of a sequence of definitions is definition i-1.  *)
(***************************************************************************)
TypeDef(t, c) == [typeName |-> t, ctor |-> c]
ProviderDef(p, c) == [protocol |-> p, ctor |-> c]
NamedObjectDef(name, value, direct) ==
    [name |-> name, value |-> value, direct |-> direct, dependencies |-> NoDeps]

NullTypeDef == TypeDef("", 0)
NullProviderDef == ProviderDef(<<>>, 0)
NullObjectDef == [pos |-> 0, at |-> 0]

\* Map.get after Map.set was called for each declaration in order: the
\* position of the last declaration with that key (0 when there is none).
\* Mutant of Last: the first declaration with the key wins.
FirstHit(hits) ==
    IF hits = {} THEN 0 ELSE CHOOSE i \in hits : \A j \in hits : i <= j

Last(hits) ==
    IF hits = {} THEN 0 ELSE CHOOSE i \in hits : \A j \in hits : j <= i
typeNameToDef(typeDefs, typeName) ==
    Last({i \in 1..Len(typeDefs) : typeDefs[i].typeName = typeName})
protocolNameToDef(providerDefs, protocol) ==
    Last({i \in 1..Len(providerDefs) : providerDefs[i].protocol = protocol})
objectNameToDef(objectDefs, name) ==
    Last({i \in 1..Len(objectDefs) : objectDefs[i].name = name})

RECURSIVE getTypeDefUnbounded(_, _, _, _)
\* Mutant of getTypeDef: the walk goes on after the budget is spent.
getTypeDefUnbounded(ds, i, typeName, maxDepth) ==
    LET p == typeNameToDef(ds[i].typeDefs, typeName) IN
    IF p # 0 THEN ds[i].typeDefs[p]
    ELSE IF i > 1 THEN getTypeDefUnbounded(ds, i - 1, typeName, maxDepth - 1)
    ELSE NullTypeDef

RECURSIVE getTypeDef(_, _, _, _)
\* ScopedObjectContextDef.getTypeDef on definition i of ds.
getTypeDef(ds, i, typeName, maxDepth) ==
    LET p == typeNameToDef(ds[i].typeDefs, typeName) IN
    IF p # 0 THEN ds[i].typeDefs[p]
    ELSE IF maxDepth > 0 /\ i > 1 THEN getTypeDef(ds, i - 1, typeName, maxDepth - 1)
    ELSE NullTypeDef

RECURSIVE getProviderDef(_, _, _, _)
getProviderDef(ds, i, protocolName, maxDepth) ==
    LET p == protocolNameToDef(ds[i].providerDefs, protocolName) IN
    IF p # 0 THEN ds[i].providerDefs[p]
    ELSE IF maxDepth > 0 /\ i > 1
         THEN getProviderDef(ds, i - 1, protocolName, maxDepth - 1)
    ELSE NullProviderDef

RECURSIVE getNamedObjectDef(_, _, _, _)
\* The declaration is named by its place: definition `at`, position `pos`.
getNamedObjectDef(ds, i, name, maxDepth) ==
    LET p == objectNameToDef(ds[i].objectDefs, name) IN
    IF p # 0 THEN [pos |-> p, at |-> i]
    ELSE IF maxDepth > 0 /\ i > 1
         THEN getNamedObjectDef(ds, i - 1, name, maxDepth - 1)
    ELSE NullObjectDef

(***************************************************************************)
(* analyzeNamedObjectDependencies.                                         *)
(***************************************************************************)
\* new ObjectContextDependency() for a declaration: no type and no protocol
\* dependency yet, and the named objects the declaration refers to.
FreshDependency(def) == [NoDeps EXCEPT !.objectDependencies = def.direct]

\* Object.keys(x) for x a Set: the own enumerable string-keyed properties of
\* the Set object, of which it has none, whatever its elements.
ObjectKeys(set) == <<>>

RECURSIVE firstPass(_, _, _, _)
\* First pass, from declaration k on: direct dependencies, then the type
\* check and the protocol check against definition `self` of ds.
\* Result: [err, objs] with err "" when no declaration threw.
firstPass(ds, self, objs, k) ==
    IF k > Len(objs) THEN [err |-> "", objs |-> objs]
    ELSE
        LET def == objs[k]
            a == analyzeDirectDependencies(
                     [dep |-> FreshDependency(def), threw |-> FALSE], def.value)
        IN
        IF a.threw THEN [err |-> "TypeError", objs |-> objs]
        ELSE IF \E typeDep \in a.dep.typeDependencies :
                    getTypeDef(ds, self, typeDep, DefaultMaxDepth) = NullTypeDef
        THEN [err |-> "UnrecognizedType", objs |-> objs]
        ELSE IF \E protocolDep \in a.dep.protocolDependencies :
                    getProviderDef(ds, self, protocolDep, DefaultMaxDepth)
                        = NullProviderDef
        THEN [err |-> "UnrecognizedProtocol", objs |-> objs]
        ELSE firstPass(ds, self, [objs EXCEPT ![k].dependencies = a.dep], k + 1)

\* resolved: name -> position of the declaration whose object-dependency Set
\* is the value held for that name (the Map holds the Set itself).
resolvedGet(resolved, name) ==
    IF name \in DOMAIN resolved THEN resolved[name] ELSE 0
resolvedSet(resolved, name, pos) ==
    [x \in (DOMAIN resolved) \cup {name} |->
        IF x = name THEN pos ELSE resolved[x]]

RECURSIVE createToResolve(_, _)
\* Lines 458-473: a record to resolve for each declaration with object
\* dependencies, an entry of `resolved` for each of the others.
createToResolve(st, k) ==
    IF k > Len(st.objs) THEN st
    ELSE
        LET objectDeps == st.objs[k].dependencies.objectDependencies IN
        IF objectDeps # {}
        THEN createToResolve(
                 [st EXCEPT !.toResolve =
                      Append(@, [unresolvedDeps |-> objectDeps, pos |-> k])],
                 k + 1)
        ELSE createToResolve(
                 [st EXCEPT !.resolved = resolvedSet(@, st.objs[k].name, k)],
                 k + 1)

RECURSIVE absorbDeps(_, _, _, _)
\* Lines 484-492, for record r of toResolve and the keys from j on.
absorbDeps(st, r, keys, j) ==
    IF j > Len(keys) THEN st
    ELSE
        LET dep == keys[j]
            from == resolvedGet(st.resolved, dep)
            pos == st.toResolve[r].pos
        IN
        IF from # 0
        THEN absorbDeps(
                 [st EXCEPT
                     !.toResolve[r].unresolvedDeps = @ \ {dep},
                     !.objs[pos].dependencies.objectDependencies =
                         @ \cup st.objs[from].dependencies.objectDependencies],
                 r, keys, j + 1)
        ELSE absorbDeps(st, r, keys, j + 1)

RECURSIVE resolveRound(_, _)
\* Lines 481-501: one round, from record r of toResolve on.
resolveRound(st, r) ==
    IF r > Len(st.toResolve) THEN st
    ELSE
        LET unresolvedDeps == ObjectKeys(st.toResolve[r].unresolvedDeps)
            st1 == absorbDeps(st, r, unresolvedDeps, 1)
            pos == st.toResolve[r].pos
        IN
        IF Len(unresolvedDeps) = 0
        THEN resolveRound(
                 [st1 EXCEPT
                     !.resolved = resolvedSet(@, st1.objs[pos].name, pos),
                     !.resolvedThisRound = @ + 1],
                 r + 1)
        ELSE resolveRound(
                 [st1 EXCEPT !.remaining = Append(@, st1.toResolve[r])], r + 1)

\* Mutant of oneRound: the round resolves no record and does not throw.
oneRoundKeepsAll(st) == st

\* Lines 477-507: the body of the while loop, one round over toResolve; a
\* round that resolves nothing throws.
oneRound(st) ==
    LET st1 == resolveRound(
                   [st EXCEPT !.remaining = <<>>, !.resolvedThisRound = 0,
                              !.rounds = @ + 1], 1)
    IN
    IF st1.resolvedThisRound = 0
    THEN [st1 EXCEPT !.err = "CyclicOrUndefined"]
    ELSE [st1 EXCEPT !.toResolve = st1.remaining]

RECURSIVE multiRound(_)
\* Lines 476-508: rounds until nothing is left to resolve, or a round that
\* resolves nothing throws.
multiRound(st) ==
    IF Len(st.toResolve) = 0 THEN st
    ELSE
        LET st1 == oneRound(st) IN
        IF st1.err # "" THEN st1 ELSE multiRound(st1)

\* analyzeNamedObjectDependencies on definition `self` of ds: [err, objs, rounds].
analyzeNamedObjectDependencies(ds, self) ==
    LET p1 == firstPass(ds, self, ds[self].objectDefs, 1) IN
    IF p1.err # "" THEN [err |-> p1.err, objs |-> p1.objs, rounds |-> 0]
    ELSE
        LET st0 == [objs |-> p1.objs, resolved |-> <<>>, toResolve |-> <<>>,
                    remaining |-> <<>>, resolvedThisRound |-> 0, rounds |-> 0,
                    err |-> ""]
            st == multiRound(createToResolve(st0, 1))
        IN [err |-> st.err, objs |-> st.objs, rounds |-> st.rounds]

\* Mutant of ScopedObjectContextDef: the analysis runs whatever the flag says.
ScopedObjectContextDefAlwaysAnalyses(ds, typeDefs, providerDefs, objectDefs, enable) ==
    LET def0 == [typeDefs |-> typeDefs, providerDefs |-> providerDefs,
                 objectDefs |-> objectDefs, analysed |-> enable]
        an == analyzeNamedObjectDependencies(Append(ds, def0), Len(ds) + 1)
    IN [err |-> an.err, def |-> [def0 EXCEPT !.objectDefs = an.objs],
        rounds |-> an.rounds]

\* new ScopedObjectContextDef(parent, typeDefs, providerDefs, objectDefs,
\* enableDependencyAnalysis), the parent being the last definition of ds
\* (none when ds is empty): [err, def, rounds].
ScopedObjectContextDef(ds, typeDefs, providerDefs, objectDefs, enable) ==
    LET def0 == [typeDefs |-> typeDefs, providerDefs |-> providerDefs,
                 objectDefs |-> objectDefs, analysed |-> enable]
    IN
    IF enable
    THEN LET an == analyzeNamedObjectDependencies(Append(ds, def0), Len(ds) + 1)
         IN [err |-> an.err, def |-> [def0 EXCEPT !.objectDefs = an.objs],
             rounds |-> an.rounds]
    ELSE [err |-> "", def |-> def0, rounds |-> 0]

(***************************************************************************)
(* The scope resolver, ScopedObjectContext.  Scope i of a chain ch is      *)
(* [label, def]; its parent is scope i-1.                                  *)
(***************************************************************************)
Defs(ch) == [i \in 1..Len(ch) |-> ch[i].def]

\* TypeRegistry.fromDefinition(definition.typeDefs).supports(typeName) and
\* ProviderRegistry.fromDefinition(definition.providerDefs).supports(protocol):
\* a catalog supports what its definition declares.
factorySupports(ch, i, typeName) ==
    typeNameToDef(ch[i].def.typeDefs, typeName) # 0
providerSupports(ch, i, protocol) ==
    protocolNameToDef(ch[i].def.providerDefs, protocol) # 0

RECURSIVE selectProvider(_, _, _)
\* The scope whose provider is returned for the protocol, walking from scope
\* i to the root; 0 when the walk ends and the call throws.
selectProvider(ch, i, protocol) ==
    IF i = 0 THEN 0
    ELSE IF providerSupports(ch, i, protocol) THEN i
    ELSE selectProvider(ch, i - 1, protocol)

\* Mutant of selectFactory: the walk starts at the root, so the farthest
\* supporting scope wins.
selectFactoryFarthest(ch, i, typeName) ==
    LET S == {j \in 1..i : factorySupports(ch, j, typeName)} IN
    IF S = {} THEN 0 ELSE CHOOSE j \in S : \A k \in S : j <= k

RECURSIVE selectFactory(_, _, _)
selectFactory(ch, i, typeName) ==
    IF i = 0 THEN 0
    ELSE IF factorySupports(ch, i, typeName) THEN i
    ELSE selectFactory(ch, i - 1, typeName)

\* Uri.tryParse applied to an element of an array: an element that is not a
\* string is not a reference.
TryParseValue(v) ==
    IF v.k = "str" THEN TryParse(v.s)
    ELSE [success |-> FALSE, protocol |-> <<>>, path |-> <<>>]

Returned(value, by) == [threw |-> FALSE, err |-> "", value |-> value, by |-> by]
Thrown(err) == [threw |-> TRUE, err |-> err, value |-> Null, by |-> 0]

provide(ch, this, protocol, input) ==
    LET by == selectProvider(ch, this, protocol) IN
    IF by = 0 THEN Thrown("UnsupportedProtocol")
    ELSE Returned(Made("provider", by, input), by)

build(ch, this, typeName, input) ==
    LET by == selectFactory(ch, this, typeName) IN
    IF by = 0 THEN Thrown("UnsupportedType")
    ELSE Returned(Made("factory", by, input), by)

RECURSIVE everyTryParseSkipsFailures(_, _, _)
\* Mutant of everyTryParse: an element that does not parse is skipped and
\* the others are resolved.
everyTryParseSkipsFailures(kids, j, uris) ==
    IF j > Len(kids) THEN [success |-> uris # <<>>, uris |-> uris]
    ELSE
        LET ret == TryParseValue(kids[j]) IN
        everyTryParseSkipsFailures(kids, j + 1,
            IF ret.success THEN Append(uris, Uri(ret.protocol, ret.path))
            ELSE uris)

RECURSIVE everyTryParse(_, _, _)
\* Lines 165-171: input.every(...) from element j on, uris being the
\* references pushed so far; every stops at the first element that fails.
everyTryParse(kids, j, uris) ==
    IF j > Len(kids) THEN [success |-> TRUE, uris |-> uris]
    ELSE
        LET ret == TryParseValue(kids[j]) IN
        IF ret.success
        THEN everyTryParse(kids, j + 1, Append(uris, Uri(ret.protocol, ret.path)))
        ELSE [success |-> FALSE, uris |-> uris]

\* ScopedObjectContext.create on scope `this` of ch: [threw, err, value, by],
\* by being the scope whose catalog was selected (0 when none was).
create(ch, this, input) ==
    IF input.k = "arr" THEN
        IF Len(input.kids) = 0 THEN Returned(input, 0)
        ELSE IF TypeOf(input.kids[1]) = "string" THEN
            LET e == everyTryParse(input.kids, 1, <<>>) IN
            IF e.success
            THEN provide(ch, this, e.uris[1].kids[1].s, Arr(e.uris))
            ELSE Returned(input, 0)
        ELSE IF TypeOf(input.kids[1]) = "object" THEN
            IF input.kids[1].k = "null" THEN Thrown("TypeError")
            ELSE IF input.kids[1].t # ""
            THEN build(ch, this, input.kids[1].t, input)
            ELSE Returned(input, 0)
        ELSE Returned(input, 0)
    ELSE IF TypeOf(input) = "string" THEN
        LET ret == TryParse(input.s) IN
        IF ret.success
        THEN provide(ch, this, ret.protocol, Uri(ret.protocol, ret.path))
        ELSE Returned(input, 0)
    ELSE IF TypeOf(input) = "object" THEN
        IF input.k = "null" THEN Thrown("TypeError")
        ELSE IF input.t # "" THEN build(ch, this, input.t, input)
        ELSE Returned(input, 0)
    ELSE Returned(input, 0)

(***************************************************************************)
(* Materialized named objects: [present, at, pos, value, scope], where     *)
(* (at, pos) names the declaration (definition `at`, position `pos`) and   *)
(* scope is the label of the scope that materialized it.                   *)
(***************************************************************************)
NoObject == [present |-> FALSE, at |-> 0, pos |-> 0, value |-> Null, scope |-> ""]
NamedObject(at, pos, value, scope) ==
    [present |-> TRUE, at |-> at, pos |-> pos, value |-> value, scope |-> scope]

\* The names named objects are declared under, and a name nothing declares.
Names == {"base", "dep"}
Undeclared == "ghost"

\* NamedObjectRegistry.get: the entry held under the name, if any.
registryGet(reg, name) == IF name \in DOMAIN reg THEN reg[name] ELSE NoObject

DefOf(ch, object) == ch[object.at].def.objectDefs[object.pos]

RECURSIVE fromDefinition(_, _, _, _)
\* NamedObjectRegistry.fromDefinition(scopeName, namedObjectDefs, context) for
\* scope `this`, from declaration k on: each declaration is materialized with
\* context.create and inserted under its name; [threw, reg].
fromDefinition(ch, this, reg, k) ==
    LET defs == ch[this].def.objectDefs IN
    IF k > Len(defs) THEN [threw |-> FALSE, reg |-> reg]
    ELSE
        LET c == create(ch, this, defs[k].value) IN
        IF c.threw THEN [threw |-> TRUE, reg |-> reg]
        ELSE fromDefinition(ch, this,
                 [reg EXCEPT ![defs[k].name] =
                      NamedObject(this, k, c.value, ch[this].label)],
                 k + 1)

\* Mutant of needsUpdate: only type dependencies are looked at.
needsUpdateTypesOnly(ch, this, namedObject, depth) ==
    IF this = 1 THEN FALSE
    ELSE
        /\ Len(ch[this].def.typeDefs) # 0
        /\ \E typeDep \in DefOf(ch, namedObject).dependencies.typeDependencies :
               getTypeDef(Defs(ch), this, typeDep, depth - 1) # NullTypeDef

\* Mutant of needsUpdate: the lookups get `depth` hops, not depth - 1, and so
\* reach the definition of the scope that holds the object.
needsUpdateCountsOwner(ch, this, namedObject, depth) ==
    IF this = 1 THEN FALSE
    ELSE
        LET def == DefOf(ch, namedObject)
            ds == Defs(ch)
        IN
        \/ /\ Len(ch[this].def.typeDefs) # 0
           /\ \E typeDep \in def.dependencies.typeDependencies :
                  getTypeDef(ds, this, typeDep, depth) # NullTypeDef
        \/ /\ Len(ch[this].def.providerDefs) # 0
           /\ \E providerDep \in def.dependencies.protocolDependencies :
                  getProviderDef(ds, this, providerDep, depth) # NullProviderDef
        \/ /\ Len(ch[this].def.objectDefs) # 0
           /\ \E objectDep \in def.dependencies.objectDependencies :
                  getNamedObjectDef(ds, this, objectDep, depth) # NullObjectDef

\* Mutant of needsUpdate: an inherited object is never rebuilt.
needsUpdateNever(ch, this, namedObject, depth) == FALSE

\* ScopedObjectContext.needsUpdate on scope `this`.
needsUpdate(ch, this, namedObject, depth) ==
    IF this = 1 THEN FALSE
    ELSE
        LET def == DefOf(ch, namedObject)
            ds == Defs(ch)
        IN
        \/ /\ Len(ch[this].def.typeDefs) # 0
           /\ \E typeDep \in def.dependencies.typeDependencies :
                  getTypeDef(ds, this, typeDep, depth - 1) # NullTypeDef
        \/ /\ Len(ch[this].def.providerDefs) # 0
           /\ \E providerDep \in def.dependencies.protocolDependencies :
                  getProviderDef(ds, this, providerDep, depth - 1) # NullProviderDef
        \/ /\ Len(ch[this].def.objectDefs) # 0
           /\ \E objectDep \in def.dependencies.objectDependencies :
                  getNamedObjectDef(ds, this, objectDep, depth - 1) # NullObjectDef

\* Mutant of getFromParent: the walk takes the farthest ancestor whose cache
\* holds the name.
getFromFarthest(ch, regs, this, name, parent, depth) ==
    LET S == {i \in 1..parent : registryGet(regs[i], name).present} IN
    IF S = {}
    THEN [threw |-> FALSE, err |-> "", ret |-> NoObject, inserted |-> FALSE,
          hit |-> 0]
    ELSE
        LET far == CHOOSE i \in S : \A j \in S : i <= j
            namedObject == registryGet(regs[far], name)
        IN
        IF needsUpdate(ch, this, namedObject, this - far) THEN
            LET c == create(ch, this, DefOf(ch, namedObject).value) IN
            IF c.threw
            THEN [threw |-> TRUE, err |-> c.err, ret |-> NoObject,
                  inserted |-> FALSE, hit |-> far]
            ELSE [threw |-> FALSE, err |-> "",
                  ret |-> NamedObject(namedObject.at, namedObject.pos, c.value,
                                      ch[this].label),
                  inserted |-> TRUE, hit |-> far]
        ELSE [threw |-> FALSE, err |-> "", ret |-> namedObject,
              inserted |-> FALSE, hit |-> far]

RECURSIVE getFromParent(_, _, _, _, _, _)
\* The walk of get over the ancestors, at ancestor `parent`, `depth` hops up:
\* [threw, err, ret, inserted, hit], hit being the scope whose entry was found.
getFromParent(ch, regs, this, name, parent, depth) ==
    IF parent = 0
    THEN [threw |-> FALSE, err |-> "", ret |-> NoObject, inserted |-> FALSE,
          hit |-> 0]
    ELSE IF registryGet(regs[parent], name).present THEN
        LET namedObject == registryGet(regs[parent], name) IN
        IF needsUpdate(ch, this, namedObject, depth) THEN
            LET c == create(ch, this, DefOf(ch, namedObject).value) IN
            IF c.threw
            THEN [threw |-> TRUE, err |-> c.err, ret |-> NoObject,
                  inserted |-> FALSE, hit |-> parent]
            ELSE [threw |-> FALSE, err |-> "",
                  ret |-> NamedObject(namedObject.at, namedObject.pos, c.value,
                                      ch[this].label),
                  inserted |-> TRUE, hit |-> parent]
        ELSE [threw |-> FALSE, err |-> "", ret |-> namedObject,
              inserted |-> FALSE, hit |-> parent]
    ELSE getFromParent(ch, regs, this, name, parent - 1, depth + 1)

\* Mutant of get: a name found nowhere in the chain is an error.
getThrowsWhenAbsent(ch, regs, this, name) ==
    IF registryGet(regs[this], name).present
    THEN [threw |-> FALSE, err |-> "", ret |-> registryGet(regs[this], name),
          inserted |-> FALSE, hit |-> this]
    ELSE LET g == getFromParent(ch, regs, this, name, this - 1, 1) IN
         IF g.hit = 0 THEN [g EXCEPT !.threw = TRUE, !.err = "NotFound"] ELSE g

\* Mutant of get: the own cache is not consulted.
getAlwaysWalks(ch, regs, this, name) ==
    getFromParent(ch, regs, this, name, this - 1, 1)

\* ScopedObjectContext.get on scope `this`.
get(ch, regs, this, name) ==
    IF registryGet(regs[this], name).present
    THEN [threw |-> FALSE, err |-> "", ret |-> registryGet(regs[this], name),
          inserted |-> FALSE, hit |-> this]
    ELSE getFromParent(ch, regs, this, name, this - 1, 1)

\* NamedObjectRegistry.forEach: the entries held, in the order the registry
\* iterates its names.
registryForEach(reg, order) ==
    SelectSeq([j \in 1..Len(order) |-> registryGet(reg, order[j])],
              LAMBDA object : object.present)

RECURSIVE visitScopeNoSkip(_, _, _, _, _)
\* Mutant of visitScope: the callback is invoked whether or not the name was
\* visited before.
visitScopeNoSkip(ch, st, entries, currentScope, j) ==
    IF j > Len(entries) THEN st
    ELSE visitScopeNoSkip(ch,
             [visited |-> st.visited \cup {DefOf(ch, entries[j]).name},
              calls |-> Append(st.calls,
                               [object |-> entries[j], from |-> currentScope])],
             entries, currentScope, j + 1)

RECURSIVE visitScope(_, _, _, _, _)
\* Lines 142-147: the entries of the registry of currentScope from entry j
\* on; st is [visited, calls], calls being the objects the callback was
\* invoked with and the scope whose registry each came from.
visitScope(ch, st, entries, currentScope, j) ==
    IF j > Len(entries) THEN st
    ELSE
        LET object == entries[j] IN
        IF DefOf(ch, object).name \notin st.visited
        THEN visitScope(ch,
                 [visited |-> st.visited \cup {DefOf(ch, object).name},
                  calls |-> Append(st.calls,
                                   [object |-> object, from |-> currentScope])],
                 entries, currentScope, j + 1)
        ELSE visitScope(ch, st, entries, currentScope, j + 1)

RECURSIVE forEachFrom(_, _, _, _, _)
\* Lines 141-149: the while loop, at currentScope (0 when the walk ended).
forEachFrom(ch, regs, st, currentScope, order) ==
    IF currentScope = 0 THEN st
    ELSE forEachFrom(ch, regs,
             visitScope(ch, st, registryForEach(regs[currentScope], order),
                        currentScope, 1),
             currentScope - 1, order)

\* Mutant of forEach: the callback gets what get returns for the name.
forEachViaGet(ch, regs, this, order) ==
    LET calls == forEachFrom(ch, regs, [visited |-> {}, calls |-> <<>>],
                             this, order).calls
    IN [j \in 1..Len(calls) |->
           [calls[j] EXCEPT
               !.object = get(ch, regs, this, DefOf(ch, calls[j].object).name).ret]]

\* ScopedObjectContext.forEach on scope `this`: the calls of the callback.
forEach(ch, regs, this, order) ==
    forEachFrom(ch, regs, [visited |-> {}, calls |-> <<>>], this, order).calls

(***************************************************************************)
(* Inputs of the operations.                                               *)
(***************************************************************************)
Labels == <<"global", "application", "request">>
Rank(label) == CHOOSE r \in 1..Len(Labels) : Labels[r] = label

ProtoP == <<"p">>
RefP == Str(<<"p", ":", "a">>)
RefQ == Str(<<"q", ":", "a">>)
TaggedT == Obj("T", <<Num(1)>>)
TaggedU == Obj("U", <<>>)

\* What one scope declares: [typeDefs, providerDefs, objectDefs].
Declares(typeDefs, providerDefs, objectDefs) ==
    [typeDefs |-> typeDefs, providerDefs |-> providerDefs,
     objectDefs |-> objectDefs]
DeclT == <<TypeDef("T", 1)>>
DeclU == <<TypeDef("U", 1)>>
DeclP == <<ProviderDef(ProtoP, 1)>>
DeclDep == <<NamedObjectDef("dep", Num(1), {})>>
DeclBaseT == <<NamedObjectDef("base", TaggedT, {})>>
DeclBaseP == <<NamedObjectDef("base", RefP, {})>>
DeclBaseDep ==
    <<NamedObjectDef("dep", Num(1), {}), NamedObjectDef("base", Num(2), {"dep"})>>
ScopeInputs ==
    { Declares(<<>>, <<>>, <<>>),
      Declares(DeclT, <<>>, <<>>),
      Declares(DeclU, <<>>, <<>>),
      Declares(<<>>, DeclP, <<>>),
      Declares(<<>>, <<>>, DeclDep),
      Declares(DeclT, <<>>, DeclBaseT),
      Declares(<<>>, DeclP, DeclBaseP),
      Declares(<<>>, <<>>, DeclBaseDep),
      Declares(<<>>, <<>>, DeclBaseT),
      Declares(<<>>, <<>>, DeclBaseP),
      Declares(DeclT, DeclP, DeclDep) }
CreateInputs == { TaggedT, RefP, RefQ, Num(1) }
\* The orders in which a registry may iterate the names it holds.
NameOrders == { <<"base", "dep">>, <<"dep", "base">> }

(***************************************************************************)
(* The state machine.                                                      *)
(***************************************************************************)
NoCall ==
    [op |-> "none", on |-> 0, name |-> "", input |-> Null, threw |-> FALSE,
     err |-> "", ret |-> NoObject, value |-> Null, by |-> 0,
     inserted |-> FALSE, hit |-> 0, visits |-> <<>>,
     budget |-> 0, protocol |-> <<>>, deps |-> NoDeps, typeDef |-> NullTypeDef,
     providerDef |-> NullProviderDef, objectDef |-> NullObjectDef,
     decl |-> Declares(<<>>, <<>>, <<>>), enable |-> FALSE, rounds |-> 0]

Init ==
    /\ chain = <<>>
    /\ cache = <<>>
    /\ lastCall = NoCall
    /\ pending = <<>>

\* new ScopedObjectContextDef(parent definition, ...) followed, when it did
\* not throw, by new ScopedObjectContext(label, baseDir, parent, definition).
\* Dependency analysis is enabled for every scope but the request scope.
NewScope(label, typeDefs, providerDefs, objectDefs) ==
    /\ IF Len(chain) = 0 THEN TRUE
       ELSE Rank(chain[Len(chain)].label) < Rank(label)
    /\ LET d == ScopedObjectContextDef(Defs(chain), typeDefs, providerDefs,
                                       objectDefs, label # "request")
           ch == Append(chain, [label |-> label, def |-> d.def])
           this == Len(chain) + 1
           r == IF d.err # "" THEN [threw |-> TRUE, reg |-> <<>>]
                ELSE fromDefinition(ch, this, [n \in Names |-> NoObject], 1)
       IN
       IF d.err # "" \/ r.threw
       THEN /\ lastCall' = [NoCall EXCEPT !.op = "new", !.on = this,
                               !.threw = TRUE,
                               !.err = IF d.err # "" THEN d.err ELSE "Unsupported"]
            /\ UNCHANGED <<chain, cache, pending>>
       ELSE /\ chain' = ch
            /\ cache' = Append(cache, r.reg)
            /\ lastCall' = [NoCall EXCEPT !.op = "new", !.on = this]
            /\ UNCHANGED pending

\* Mutant of Get: the rebuilt object is inserted into the cache of the scope
\* where the entry was found.
GetInsertsWhereFound(this, name) ==
    LET g == get(chain, cache, this, name) IN
    /\ cache' = IF g.inserted THEN [cache EXCEPT ![g.hit][name] = g.ret] ELSE cache
    /\ lastCall' = [NoCall EXCEPT !.op = "get", !.on = this, !.name = name,
                       !.threw = g.threw, !.err = g.err, !.ret = g.ret,
                       !.inserted = g.inserted, !.hit = g.hit]
    /\ UNCHANGED <<chain, pending>>

\* Mutant of Get: an ancestor's object that is shared is inserted into the
\* own cache as well.
GetInsertsShared(this, name) ==
    LET g == get(chain, cache, this, name) IN
    /\ cache' = IF g.ret.present THEN [cache EXCEPT ![this][name] = g.ret]
                ELSE cache
    /\ lastCall' = [NoCall EXCEPT !.op = "get", !.on = this, !.name = name,
                       !.threw = g.threw, !.err = g.err, !.ret = g.ret,
                       !.inserted = g.inserted, !.hit = g.hit]
    /\ UNCHANGED <<chain, pending>>

Get(this, name) ==
    LET g == get(chain, cache, this, name) IN
    /\ cache' = IF g.inserted THEN [cache EXCEPT ![this][name] = g.ret] ELSE cache
    /\ lastCall' = [NoCall EXCEPT !.op = "get", !.on = this, !.name = name,
                       !.threw = g.threw, !.err = g.err, !.ret = g.ret,
                       !.inserted = g.inserted, !.hit = g.hit]
    /\ UNCHANGED <<chain, pending>>

\* Mutant of Create: a call that throws empties the cache of its scope.
CreateResetsOnError(this, input) ==
    LET c == create(chain, this, input) IN
    /\ lastCall' = [NoCall EXCEPT !.op = "create", !.on = this, !.input = input,
                       !.threw = c.threw, !.err = c.err, !.value = c.value,
                       !.by = c.by]
    /\ cache' = IF c.threw THEN [cache EXCEPT ![this] = [n \in Names |-> NoObject]]
                ELSE cache
    /\ UNCHANGED <<chain, pending>>

Create(this, input) ==
    LET c == create(chain, this, input) IN
    /\ lastCall' = [NoCall EXCEPT !.op = "create", !.on = this, !.input = input,
                       !.threw = c.threw, !.err = c.err, !.value = c.value,
                       !.by = c.by]
    /\ UNCHANGED <<chain, cache, pending>>

ForEach(this, order) ==
    /\ lastCall' = [NoCall EXCEPT !.op = "forEach", !.on = this,
                       !.visits = forEach(chain, cache, this, order)]
    /\ UNCHANGED <<chain, cache, pending>>

Next ==
    \/ \E label \in {Labels[r] : r \in 1..Len(Labels)}, d \in ScopeInputs :
          NewScope(label, d.typeDefs, d.providerDefs, d.objectDefs)
    \/ \E this \in 1..Len(chain), name \in Names \cup {Undeclared} : Get(this, name)
    \/ \E this \in 1..Len(chain), input \in CreateInputs : Create(this, input)
    \/ \E this \in 1..Len(chain), order \in NameOrders : ForEach(this, order)

Spec == Init /\ [][Next]_vars

(***************************************************************************)
(* Properties of the scope resolver (Spec).  lastCall is the call that led *)
(* to the state; in an action formula the unprimed caches are those the    *)
(* call found and lastCall' is what it returned.                           *)
(***************************************************************************)
Highest(S) == IF S = {} THEN 0 ELSE CHOOSE i \in S : \A j \in S : j <= i

\* The nearest scope, from scope `this` outward, whose cache holds the name
\* (0 when none does).
NearestHolder(this, name) ==
    Highest({i \in 1..this : registryGet(cache[i], name).present})

DeclaresType(i, t) ==
    \E j \in 1..Len(chain[i].def.typeDefs) : chain[i].def.typeDefs[j].typeName = t
DeclaresProtocol(i, q) ==
    \E j \in 1..Len(chain[i].def.providerDefs) :
        chain[i].def.providerDefs[j].protocol = q
DeclaresObject(i, n) ==
    \E j \in 1..Len(chain[i].def.objectDefs) : chain[i].def.objectDefs[j].name = n

\* The definition of scope i declares a type, a protocol or a named object
\* of the dependency set.
DeclaresDependency(i, deps) ==
    \/ \E t \in deps.typeDependencies : DeclaresType(i, t)
    \/ \E q \in deps.protocolDependencies : DeclaresProtocol(i, q)
    \/ \E n \in deps.objectDependencies : DeclaresObject(i, n)

GetOn(this, name) ==
    lastCall.op = "get" /\ lastCall.on = this /\ lastCall.name = name

\* C1: in a chain global -> application -> request where the global scope
\* declares a named object depending on a type and the application scope
\* declares that type, get(name) on the request scope does not return the
\* global scope's object, whatever the request scope declares and whether or
\* not get(name) was called on the application scope before.
C1_RequestGetRebuilds ==
    \A name \in Names :
        ( /\ Len(chain) = 3
          /\ GetOn(3, name)
          /\ DeclaresObject(1, name)
          /\ ~DeclaresObject(2, name) /\ ~DeclaresObject(3, name)
          /\ \E t \in DefOf(chain, cache[1][name]).dependencies.typeDependencies :
                 DeclaresType(2, t) )
        => /\ ~lastCall.threw
           /\ lastCall.ret.present
           /\ lastCall.ret.scope # chain[1].label

\* C2: when get(name) on a scope misses its cache and hits an ancestor's
\* entry, and the scope's own definition declares a type, a protocol or a
\* named object of the dependency set of the entry's declaration, get
\* returns a new object with the entry's declaration, the value of create on
\* the declaration's raw value in this scope and this scope's label, and
\* that object is inserted into this scope's cache.
C2_OwnOverrideRebuilds ==
    [][ \A this \in 1..Len(chain), name \in Names :
          LET h == NearestHolder(this, name)
              entry == registryGet(cache[h], name)
              def == DefOf(chain, entry)
          IN ( /\ lastCall'.op = "get" /\ lastCall'.on = this
               /\ lastCall'.name = name
               /\ h # 0 /\ h # this
               /\ DeclaresDependency(this, def.dependencies) )
             => /\ ~lastCall'.threw
                /\ lastCall'.ret =
                       NamedObject(entry.at, entry.pos,
                                   create(chain, this, def.value).value,
                                   chain[this].label)
                /\ lastCall'.ret # entry
                /\ cache' = [cache EXCEPT ![this][name] = lastCall'.ret]
      ]_vars

C2_Witness ==
    /\ lastCall.op = "get" /\ lastCall.inserted
    /\ lastCall.hit < lastCall.on
    /\ DeclaresDependency(lastCall.on, DefOf(chain, lastCall.ret).dependencies)
    /\ cache[lastCall.on][lastCall.name].scope = chain[lastCall.on].label

\* The object scope i materialized at construction for the name it declares.
Original(i, name) ==
    LET pos == Highest({j \in 1..Len(chain[i].def.objectDefs) :
                           chain[i].def.objectDefs[j].name = name})
    IN NamedObject(i, pos,
                   create(chain, i, chain[i].def.objectDefs[pos].value).value,
                   chain[i].label)

\* C3: a get on a scope changes no cache but that scope's own, and after any
\* gets a scope still holds, and returns, the object it materialized itself
\* for a name it declares.
C3_GetChangesOwnCacheOnly ==
    [][ lastCall'.op = "get" =>
          /\ chain' = chain
          /\ Len(cache') = Len(cache)
          /\ \A j \in 1..Len(cache) :
                 /\ j # lastCall'.on => cache'[j] = cache[j]
                 /\ \A n \in Names :
                        DeclaresObject(j, n) =>
                            /\ cache'[j][n] = Original(j, n)
                            /\ (lastCall'.on = j /\ lastCall'.name = n)
                                   => lastCall'.ret = Original(j, n)
      ]_vars

\* A get on an ancestor returned its own object while a descendant holds a
\* copy it rebuilt of the same declaration.
C3_Witness ==
    /\ lastCall.op = "get" /\ lastCall.on = 1 /\ lastCall.ret.present
    /\ lastCall.ret.scope = chain[1].label
    /\ \E j \in 2..Len(chain) :
           /\ cache[j][lastCall.name].present
           /\ cache[j][lastCall.name].at = 1
           /\ cache[j][lastCall.name].scope = chain[j].label

\* C4: when no scope from the requester up to, but excluding, the scope
\* whose cache holds the name declares a dependency of the declaration, get
\* returns that scope's object itself and inserts nothing; the holder's own
\* declarations, and those above it, do not count.  And needsUpdate is false
\* on a scope with no parent.
C4_SharedWhenNotOverridden ==
    [][ /\ \A this \in 1..Len(chain), name \in Names :
              LET h == NearestHolder(this, name)
                  entry == registryGet(cache[h], name)
              IN ( /\ lastCall'.op = "get" /\ lastCall'.on = this
                   /\ lastCall'.name = name
                   /\ h # 0
                   /\ \A i \in (h + 1)..this :
                          ~DeclaresDependency(i, DefOf(chain, entry).dependencies) )
                 => /\ ~lastCall'.threw
                    /\ lastCall'.ret = entry
                    /\ cache' = cache
        /\ \A n \in Names, depth \in 1..3 :
              (Len(chain) >= 1 /\ cache[1][n].present)
                  => ~needsUpdate(chain, 1, cache[1][n], depth)
      ]_vars

\* A get from the third scope returned the root's object, the root itself
\* declaring a dependency of it and the scopes below declaring something.
C4_Witness ==
    /\ Len(chain) = 3
    /\ lastCall.op = "get" /\ lastCall.on = 3 /\ lastCall.hit = 1
    /\ ~lastCall.inserted
    /\ lastCall.ret = cache[1][lastCall.name]
    /\ DeclaresDependency(1, DefOf(chain, lastCall.ret).dependencies)
    /\ Len(chain[3].def.typeDefs) # 0
    /\ Len(chain[2].def.objectDefs) # 0

\* C8: a create that fails because no scope from the caller to the root
\* supports the protocol or the type, called directly or as the rebuild
\* inside get, leaves every cache as it was.
C8_FailedCreateLeavesCaches ==
    [][ ( /\ lastCall'.op \in {"get", "create"}
          /\ lastCall'.threw
          /\ lastCall'.err \in {"UnsupportedProtocol", "UnsupportedType"} )
        => /\ cache' = cache
           /\ chain' = chain
      ]_vars

C8_Witness ==
    /\ lastCall.op = "create" /\ lastCall.threw
    /\ lastCall.err = "UnsupportedType"
    /\ Len(chain) = 3
    /\ \E i \in 1..Len(chain) : \E n \in Names :
           cache[i][n].present /\ cache[i][n].scope # chain[cache[i][n].at].label

\* C9: get(name) for a name that no cache from the scope to the root holds
\* returns the absent result, raises no error and changes no cache.
C9_AbsentNameIsNotAnError ==
    [][ \A this \in 1..Len(chain), name \in Names \cup {Undeclared} :
          ( /\ lastCall'.op = "get" /\ lastCall'.on = this
            /\ lastCall'.name = name
            /\ NearestHolder(this, name) = 0 )
          => /\ ~lastCall'.threw
             /\ lastCall'.ret = NoObject
             /\ cache' = cache
      ]_vars

C9_Witness ==
    /\ Len(chain) = 3
    /\ lastCall.op = "get" /\ lastCall.on = 3
    /\ lastCall.ret = NoObject /\ ~lastCall.threw
    /\ \A i \in 1..3 : ~registryGet(cache[i], lastCall.name).present

\* The scopes, from scope `this` to the root, whose catalog supports what
\* the input asks for: its type tag, or the protocol of its reference.
Supporters(this, input) ==
    IF input.k = "obj"
    THEN {i \in 1..this : DeclaresType(i, input.t)}
    ELSE {i \in 1..this :
              DeclaresProtocol(i, SubSeq(input.s, 1, FirstColon(input.s, 1) - 1))}

\* C10: create on a tagged object or a reference uses the catalog of the
\* nearest scope, from the caller outward to the root, that supports the
\* type or the protocol, and raises an error when no scope does.
C10_NearestCatalogSelected ==
    ( /\ lastCall.op = "create"
      /\ \/ lastCall.input.k = "obj" /\ lastCall.input.t # ""
         \/ lastCall.input.k = "str" /\ FirstColon(lastCall.input.s, 1) > 1 )
    => LET S == Supporters(lastCall.on, lastCall.input) IN
       /\ lastCall.threw <=> S = {}
       /\ S # {} => /\ lastCall.by = Highest(S)
                    /\ lastCall.value.n = Highest(S)

\* A farther scope supports the type too, and the nearer one was chosen.
C10_Witness ==
    /\ lastCall.op = "create" /\ ~lastCall.threw
    /\ lastCall.input.k = "obj"
    /\ lastCall.by < lastCall.on
    /\ \E i \in 1..Len(chain) : i < lastCall.by /\ DeclaresType(i, lastCall.input.t)

\* The name of the declaration the callback was invoked with at call j.
VisitName(j) == DefOf(chain, lastCall.visits[j].object).name

\* C11: forEach on a scope invokes the callback exactly once for every name
\* held in a cache from that scope to the root and for no other name, the
\* calls for a nearer scope's entries coming before those of a farther one,
\* and for a name held at several levels it passes the nearest scope's entry.
C11_EachNameOnceNearestFirst ==
    lastCall.op = "forEach" =>
        LET v == lastCall.visits
            this == lastCall.on
        IN /\ {VisitName(j) : j \in 1..Len(v)}
                  = {n \in Names : NearestHolder(this, n) # 0}
           /\ \A i, j \in 1..Len(v) :
                  i < j => /\ VisitName(i) # VisitName(j)
                           /\ v[i].from >= v[j].from
           /\ \A j \in 1..Len(v) :
                  /\ v[j].from = NearestHolder(this, VisitName(j))
                  /\ v[j].object = cache[v[j].from][VisitName(j)]

\* Both levels hold one name with different entries, another name is held by
\* the ancestor only, and forEach on the descendant visited both.
C11_Witness ==
    /\ lastCall.op = "forEach" /\ lastCall.on >= 2
    /\ Len(lastCall.visits) = 2
    /\ lastCall.visits[1].from = lastCall.on
    /\ lastCall.visits[2].from < lastCall.on
    /\ \E i \in 1..(lastCall.on - 1) :
           /\ cache[i][VisitName(1)].present
           /\ cache[i][VisitName(1)] # lastCall.visits[1].object

\* C12: forEach changes no cache and no scope, and passes each entry as the
\* cache it came from holds it, also an inherited entry that get for the
\* same name on the same scope would rebuild.
C12_ForEachRebuildsNothing ==
    [][ lastCall'.op = "forEach" =>
          /\ cache' = cache
          /\ chain' = chain
          /\ \A j \in 1..Len(lastCall'.visits) :
                 LET c == lastCall'.visits[j]
                     name == DefOf(chain, c.object).name
                     g == get(chain, cache, lastCall'.on, name)
                 IN /\ c.object = registryGet(cache[c.from], name)
                    /\ g.inserted => /\ c.object # g.ret
                                      /\ c.from < lastCall'.on
                                      /\ c.object.scope # chain[lastCall'.on].label
      ]_vars

\* forEach passed an ancestor's entry that get on the same scope rebuilds.
C12_Witness ==
    /\ lastCall.op = "forEach"
    /\ \E j \in 1..Len(lastCall.visits) :
           /\ lastCall.visits[j].from < lastCall.on
           /\ get(chain, cache, lastCall.on, VisitName(j)).inserted
           /\ lastCall.visits[j].object = cache[lastCall.visits[j].from][VisitName(j)]

\* C16: when no scope strictly between the requester and the owner of a
\* named object declares a dependency of it, the value of the object that
\* get(name) returns equals the value that create returns for the raw value
\* of that name's declaration on the same scope, and that create does not
\* fail.
C16_GetEqualsCreateOfDeclaration ==
    [][ ( /\ lastCall.op = "get" /\ ~lastCall.threw /\ lastCall.ret.present
          /\ \A i \in (lastCall.ret.at + 1)..(lastCall.on - 1) :
                 ~DeclaresDependency(i, DefOf(chain, lastCall.ret).dependencies)
          /\ lastCall'.op = "create" /\ lastCall'.on = lastCall.on
          /\ lastCall'.input = DefOf(chain, lastCall.ret).value )
        => /\ ~lastCall'.threw
           /\ lastCall'.value = lastCall.ret.value
      ]_vars

\* create on the third scope was given the raw value of a declaration of the
\* root that no scope below overrides, and built the value that get on the
\* third scope returns, which is the root's own object.
C16_Witness ==
    /\ Len(chain) = 3
    /\ lastCall.op = "create" /\ lastCall.on = 3 /\ ~lastCall.threw
    /\ lastCall.value.k = "made"
    /\ \E name \in Names :
           LET g == get(chain, cache, 3, name) IN
           /\ g.ret.present /\ g.hit = 1 /\ ~g.inserted
           /\ g.ret.at = 1
           /\ \A i \in 2..3 :
                  ~DeclaresDependency(i, DefOf(chain, g.ret).dependencies)
           /\ lastCall.input = DefOf(chain, g.ret).value
           /\ lastCall.value = g.ret.value

\* C21: once get(name) on a scope has rebuilt and cached the object, every
\* later get(name) on that scope returns that cached object, found in the
\* scope's own cache, and rebuilds and inserts nothing: the cached object is
\* never replaced, so a scope rebuilds a name at most once.
C21_RebuiltAtMostOnce ==
    [][ \A this \in 1..Len(chain), name \in Names :
          cache[this][name].present =>
              /\ cache'[this][name] = cache[this][name]
              /\ ( /\ lastCall'.op = "get" /\ lastCall'.on = this
                   /\ lastCall'.name = name )
                 => /\ ~lastCall'.threw
                    /\ lastCall'.ret = cache[this][name]
                    /\ lastCall'.hit = this
                    /\ ~lastCall'.inserted
      ]_vars

\* A get answered from the scope's own cache with an object the scope had
\* rebuilt from an ancestor's declaration, the ancestor still holding its own.
C21_Witness ==
    /\ lastCall.op = "get" /\ lastCall.hit = lastCall.on
    /\ ~lastCall.inserted
    /\ lastCall.ret.present /\ lastCall.ret.at < lastCall.on
    /\ lastCall.ret.scope = chain[lastCall.on].label
    /\ cache[lastCall.ret.at][lastCall.name].present
    /\ cache[lastCall.ret.at][lastCall.name] # lastCall.ret

\* C22: get(name) resolves against the nearest holder: an entry of the
\* scope's own cache is returned whatever the ancestors hold; otherwise the
\* entry of the nearest ancestor that holds the name is the one shared or
\* rebuilt from, and no farther ancestor's entry is returned or rebuilt from.
C22_NearestHolderDecides ==
    [][ \A this \in 1..Len(chain), name \in Names :
          LET h == NearestHolder(this, name)
              entry == registryGet(cache[h], name)
          IN ( /\ lastCall'.op = "get" /\ lastCall'.on = this
               /\ lastCall'.name = name
               /\ h # 0 )
             => /\ ~lastCall'.threw
                /\ lastCall'.hit = h
                /\ h = this => lastCall'.ret = entry
                /\ lastCall'.ret.at = entry.at /\ lastCall'.ret.pos = entry.pos
                /\ \/ lastCall'.ret = entry /\ ~lastCall'.inserted
                   \/ /\ lastCall'.inserted
                      /\ lastCall'.ret.value =
                             create(chain, this, DefOf(chain, entry).value).value
                /\ \A j \in 1..(h - 1) :
                       ( /\ registryGet(cache[j], name).present
                         /\ registryGet(cache[j], name) # entry )
                       => lastCall'.ret # registryGet(cache[j], name)
      ]_vars

\* The third scope got the entry of the second, which declares the name
\* itself, while the root holds an entry of another declaration.
C22_Witness ==
    /\ Len(chain) = 3
    /\ lastCall.op = "get" /\ lastCall.on = 3 /\ lastCall.hit = 2
    /\ lastCall.ret.at = 2
    /\ cache[1][lastCall.name].present
    /\ DefOf(chain, cache[1][lastCall.name]).value
           # DefOf(chain, lastCall.ret).value

\* C23: in every reachable state each entry of a scope's cache, inserted by
\* the constructor or by get, carries that scope's label and comes from a
\* declaration of that scope or of an ancestor; no sequence of calls puts an
\* entry labelled with one scope into the cache of another.
C23_CacheEntriesCarryOwnLabel ==
    /\ Len(cache) = Len(chain)
    /\ \A i \in 1..Len(chain) :
           /\ DOMAIN cache[i] = Names
           /\ \A n \in Names :
                  cache[i][n].present =>
                      /\ cache[i][n].scope = chain[i].label
                      /\ cache[i][n].at \in 1..i
                      /\ DefOf(chain, cache[i][n]).name = n
                      /\ \A j \in 1..Len(chain) :
                             j # i => cache[i][n].scope # chain[j].label

\* Two scopes below the root each hold an entry that get rebuilt from the
\* root's declaration, each under its own label.
C23_Witness ==
    /\ Len(chain) = 3
    /\ \E n \in Names :
           /\ cache[1][n].present /\ cache[2][n].present /\ cache[3][n].present
           /\ cache[2][n].at = 1 /\ cache[3][n].at = 1
           /\ cache[2][n].scope = "application"
           /\ cache[3][n].scope = "request"

\* The caches as the constructors of the scopes left them, before any get.
FreshCaches ==
    [i \in 1..Len(chain) |->
        fromDefinition(chain, i, [n \in Names |-> NoObject], 1).reg]

\* C20: what get(name) returns on the last scope of the chain, when that
\* scope has inserted nothing yet (its value, its scope label and whether it
\* was rebuilt), is what it returns when no get was ever called on an
\* ancestor.  Stated for the objects whose declaration depends on types and
\* protocols only.
C20_LeafResultIndependentOfHistory ==
    [][ \A name \in Names :
          ( /\ lastCall'.op = "get" /\ lastCall'.on = Len(chain)
            /\ lastCall'.name = name
            /\ cache[Len(chain)] = FreshCaches[Len(chain)]
            /\ lastCall'.ret.present
            /\ DefOf(chain, lastCall'.ret).dependencies.objectDependencies = {} )
          => LET g == get(chain, FreshCaches, Len(chain), name) IN
             /\ lastCall'.ret.value = g.ret.value
             /\ lastCall'.ret.scope = g.ret.scope
             /\ lastCall'.inserted = g.inserted
      ]_vars

\* What does hold: the history of the ancestors does not show when no scope
\* strictly between the last scope and the owner of the object declares a
\* dependency of it.
LeafResultIndependentWithoutOverride ==
    [][ \A name \in Names :
          ( /\ lastCall'.op = "get" /\ lastCall'.on = Len(chain)
            /\ lastCall'.name = name
            /\ cache[Len(chain)] = FreshCaches[Len(chain)]
            /\ lastCall'.ret.present
            /\ \A i \in (lastCall'.ret.at + 1)..(Len(chain) - 1) :
                   ~DeclaresDependency(i, DefOf(chain, lastCall'.ret).dependencies) )
          => LET g == get(chain, FreshCaches, Len(chain), name) IN
             /\ lastCall'.ret.value = g.ret.value
             /\ lastCall'.ret.scope = g.ret.scope
             /\ lastCall'.inserted = g.inserted
      ]_vars

(***************************************************************************)
(* create over every shape of input (SpecCreate): scopes that declare      *)
(* builders and resolvers only, and inputs of each branch of create.       *)
(***************************************************************************)
ProtoQ == <<"q">>
DeclQ == <<ProviderDef(ProtoQ, 1)>>
NotRef == Str(<<"x">>)
NoProtocol == Str(<<":", "a">>)
Untagged == Obj("", <<Num(1)>>)
CatalogScopeInputs ==
    { Declares(<<>>, <<>>, <<>>), Declares(DeclT, <<>>, <<>>),
      Declares(<<>>, DeclP, <<>>), Declares(<<>>, DeclQ, <<>>),
      Declares(DeclT, DeclP, <<>>) }
ShapeInputs ==
    { Null, Num(1), Bool(TRUE), Bool(FALSE), Untagged, NotRef, NoProtocol,
      TaggedT, TaggedU, RefP, RefQ,
      Arr(<<>>), Arr(<<Null>>), Arr(<<Null, RefP>>), Arr(<<Untagged>>),
      Arr(<<Num(1), RefP>>), Arr(<<TaggedT, Num(1)>>),
      Arr(<<NotRef>>), Arr(<<NotRef, RefP>>), Arr(<<RefP, NotRef>>),
      Arr(<<RefP, NoProtocol, RefQ>>), Arr(<<RefP, Num(1)>>),
      Arr(<<RefP>>), Arr(<<RefP, RefQ>>), Arr(<<RefQ, RefP>>) }

NextCreate ==
    \/ \E label \in {Labels[r] : r \in 1..Len(Labels)}, d \in CatalogScopeInputs :
          NewScope(label, d.typeDefs, d.providerDefs, d.objectDefs)
    \/ \E this \in 1..Len(chain), input \in ShapeInputs : Create(this, input)

SpecCreate == Init /\ [][NextCreate]_vars

\* The string is a reference: it has a colon with something before it.
IsReference(v) == v.k = "str" /\ FirstColon(v.s, 1) > 1
IsTagged(v) == v.k = "obj" /\ v.t # ""

\* The inputs create is to hand back: everything but a reference, a tagged
\* object and a non-empty sequence that starts with one of these.
PassesThrough(input) ==
    /\ ~IsReference(input)
    /\ ~IsTagged(input)
    /\ ~( /\ input.k = "arr" /\ Len(input.kids) > 0
          /\ (IsReference(input.kids[1]) \/ IsTagged(input.kids[1])) )

\* C13: create returns its input unchanged, raises no error and uses no
\* builder and no resolver for every input that is not a reference, not a
\* tagged object and not a non-empty sequence starting with one: null,
\* numbers, booleans, untagged objects, the empty sequence, sequences whose
\* first element is null or an untagged object.
C13_OtherInputsPassThrough ==
    (lastCall.op = "create" /\ PassesThrough(lastCall.input))
        => /\ ~lastCall.threw
           /\ lastCall.value = lastCall.input
           /\ lastCall.by = 0

\* What does hold of create: of these inputs, null and a sequence whose
\* first element is null raise a TypeError, the others are handed back.
PassesThroughUnlessNull ==
    (lastCall.op = "create" /\ PassesThrough(lastCall.input))
        => IF \/ lastCall.input.k = "null"
              \/ /\ lastCall.input.k = "arr" /\ Len(lastCall.input.kids) > 0
                 /\ lastCall.input.kids[1].k = "null"
           THEN lastCall.threw /\ lastCall.err = "TypeError"
           ELSE /\ ~lastCall.threw
                /\ lastCall.value = lastCall.input
                /\ lastCall.by = 0

\* The parsed reference of a reference string.
UriOf(v) ==
    Uri(SubSeq(v.s, 1, FirstColon(v.s, 1) - 1),
        SubSeq(v.s, FirstColon(v.s, 1) + 1, Len(v.s)))

\* C14: for a non-empty sequence whose first element is a string, create
\* hands the sequence back, using no resolver, when some element is not a
\* reference; when all are, the resolver of the nearest scope supporting the
\* first reference's protocol is invoked with all the parsed references in
\* input order (and the call fails when no scope supports that protocol).
C14_SequenceAllOrNothing ==
    ( /\ lastCall.op = "create"
      /\ lastCall.input.k = "arr" /\ Len(lastCall.input.kids) > 0
      /\ lastCall.input.kids[1].k = "str" )
    => LET kids == lastCall.input.kids IN
       IF \E j \in 1..Len(kids) : ~IsReference(kids[j])
       THEN /\ ~lastCall.threw
            /\ lastCall.value = lastCall.input
            /\ lastCall.by = 0
       ELSE LET S == {i \in 1..lastCall.on :
                         DeclaresProtocol(i, UriOf(kids[1]).kids[1].s)}
            IN /\ lastCall.threw <=> S = {}
               /\ S # {} =>
                      /\ lastCall.by = Highest(S)
                      /\ lastCall.value =
                             Made("provider", Highest(S),
                                  Arr([j \in 1..Len(kids) |-> UriOf(kids[j])]))

\* References of two protocols, both supported in the chain: the resolver of
\* the first one's protocol got both, though a nearer scope supports the
\* second one's.
C14_Witness ==
    /\ lastCall.op = "create" /\ ~lastCall.threw
    /\ lastCall.input = Arr(<<RefP, RefQ>>)
    /\ lastCall.by < lastCall.on
    /\ lastCall.value.kids[1] = Arr(<<UriOf(RefP), UriOf(RefQ)>>)
    /\ \E i \in (lastCall.by + 1)..lastCall.on : DeclaresProtocol(i, ProtoQ)

(***************************************************************************)
(* Construction of scope definitions alone: the constructor of             *)
(* ScopedObjectContextDef applied to declaration lists that refer to named *)
(* objects, hold nulls and nest tagged objects.                            *)
(***************************************************************************)
Refers(name, direct) == NamedObjectDef(name, Num(1), direct)
DeclTU == <<TypeDef("T", 1), TypeDef("U", 1)>>
ObjectDefInputs ==
    { <<>>,
      <<NamedObjectDef("A", TaggedT, {})>>,
      <<NamedObjectDef("A", Obj("T", <<TaggedU>>), {})>>,
      <<NamedObjectDef("A", Arr(<<RefP, Str(<<"x">>)>>), {})>>,
      <<NamedObjectDef("A", Obj("T", <<Null>>), {})>>,
      <<Refers("A", {"B"}), Refers("B", {"A"})>>,
      <<Refers("A", {"B"}), Refers("B", {"C"}), Refers("C", {"D"}),
        Refers("D", {})>>,
      <<Refers("D", {}), Refers("C", {"D"}), Refers("B", {"C"}),
        Refers("A", {"B"})>>,
      <<Refers("A", {Undeclared})>> }
CatalogInputs ==
    { Declares(<<>>, <<>>, <<>>), Declares(DeclT, <<>>, <<>>),
      Declares(DeclTU, <<>>, <<>>), Declares(<<>>, DeclP, <<>>),
      Declares(DeclT, DeclP, <<>>) }
DefInputs ==
    { Declares(c.typeDefs, c.providerDefs, o) :
          c \in CatalogInputs, o \in ObjectDefInputs }

\* new ScopedObjectContextDef(last definition built or null, typeDefs,
\* providerDefs, objectDefs, enableDependencyAnalysis).
DefineUpTo(max, d, enable) ==
    /\ Len(chain) < max
    /\ LET r == ScopedObjectContextDef(Defs(chain), d.typeDefs, d.providerDefs,
                                       d.objectDefs, enable)
       IN
       /\ lastCall' = [NoCall EXCEPT !.op = "def", !.on = Len(chain) + 1,
                          !.threw = (r.err # ""), !.err = r.err,
                          !.decl = d, !.enable = enable, !.rounds = r.rounds]
       /\ chain' = IF r.err # "" THEN chain
                   ELSE Append(chain, [label |-> "", def |-> r.def])
       /\ UNCHANGED <<cache, pending>>

Define(d, enable) == DefineUpTo(MaxDefs, d, enable)

NextDef == \E d \in DefInputs, enable \in BOOLEAN : Define(d, enable)

SpecDef == Init /\ [][NextDef]_vars

(***************************************************************************)
(* Properties of the construction of a scope definition (SpecDef).         *)
(***************************************************************************)
\* The last constructor call ran the dependency analysis.
Analysed == lastCall.op = "def" /\ lastCall.enable

\* The definitions that were the ancestors of the definition of the last
\* constructor call (a definition that was built is the last of the chain).
AncestorDefs ==
    IF lastCall.threw THEN Defs(chain)
    ELSE SubSeq(Defs(chain), 1, Len(chain) - 1)

\* The named objects the declaration of `name` refers to directly.
DirectOf(objs, name) ==
    LET p == objectNameToDef(objs, name) IN
    IF p = 0 THEN {} ELSE objs[p].direct

RECURSIVE ReachableIn(_, _, _)
\* What is reached from the names S over at most k more direct references.
ReachableIn(objs, S, k) ==
    IF k = 0 THEN S
    ELSE ReachableIn(objs, S \cup UNION {DirectOf(objs, n) : n \in S}, k - 1)

\* The named objects a declaration depends on, directly or not.
TransitiveDeps(objs, name) == ReachableIn(objs, DirectOf(objs, name), Len(objs))

Cyclic(objs) ==
    \E k \in 1..Len(objs) : objs[k].name \in TransitiveDeps(objs, objs[k].name)

\* Some declaration refers to a named object declared neither by these
\* declarations nor by an ancestor definition.
RefersToUndeclared(ds, objs) ==
    \E k \in 1..Len(objs) : \E n \in objs[k].direct :
        /\ objectNameToDef(objs, n) = 0
        /\ \A i \in 1..Len(ds) : objectNameToDef(ds[i].objectDefs, n) = 0

\* C5: with dependency analysis enabled, construction aborts with an error
\* when the named objects declared are cyclic (A depends on B, B on A) and
\* when one refers to a named object that is declared nowhere.
C5_CyclicOrUndeclaredAborts ==
    ( /\ Analysed
      /\ \/ Cyclic(lastCall.decl.objectDefs)
         \/ RefersToUndeclared(AncestorDefs, lastCall.decl.objectDefs) )
    => lastCall.threw

\* The declarations are plain values that refer to named objects only.
PlainValues(objs) == \A k \in 1..Len(objs) : objs[k].value.k = "num"

\* C6: for a non-cyclic chain of named-object dependencies (A on B, B on C,
\* C on D) construction with dependency analysis succeeds, and the object
\* dependencies recorded on each declaration are the transitive closure.
C6_ClosureIsTransitive ==
    ( /\ Analysed
      /\ PlainValues(lastCall.decl.objectDefs)
      /\ ~Cyclic(lastCall.decl.objectDefs)
      /\ ~RefersToUndeclared(<<>>, lastCall.decl.objectDefs) )
    => /\ ~lastCall.threw
       /\ \A k \in 1..Len(lastCall.decl.objectDefs) :
              chain[Len(chain)].def.objectDefs[k].dependencies.objectDependencies
                  = TransitiveDeps(lastCall.decl.objectDefs,
                                   lastCall.decl.objectDefs[k].name)

RECURSIVE TagsIn(_)
\* The type tags carried by objects anywhere in a value.
TagsIn(v) ==
    (IF v.k = "obj" /\ v.t # "" THEN {v.t} ELSE {})
        \cup UNION {TagsIn(v.kids[j]) : j \in 1..Len(v.kids)}

RECURSIVE ProtocolsIn(_)
\* The protocols of the reference strings anywhere in a value.
ProtocolsIn(v) ==
    (IF v.k = "str" /\ FirstColon(v.s, 1) > 1
     THEN {SubSeq(v.s, 1, FirstColon(v.s, 1) - 1)} ELSE {})
        \cup UNION {ProtocolsIn(v.kids[j]) : j \in 1..Len(v.kids)}

\* Definition i of ds, or an ancestor of it within DefaultMaxDepth hops,
\* declares the type (the protocol).
TypeDeclaredWithin(ds, i, t) ==
    \E h \in 0..DefaultMaxDepth :
        /\ i - h >= 1
        /\ \E j \in 1..Len(ds[i - h].typeDefs) : ds[i - h].typeDefs[j].typeName = t
ProtocolDeclaredWithin(ds, i, p) ==
    \E h \in 0..DefaultMaxDepth :
        /\ i - h >= 1
        /\ \E j \in 1..Len(ds[i - h].providerDefs) :
               ds[i - h].providerDefs[j].protocol = p

\* Some named value of the last constructor call has a type dependency with
\* no builder declaration, or a protocol dependency with no resolver
\* declaration, in the definition or its ancestors.
SomeDependencyUndeclared ==
    LET ds == Append(AncestorDefs,
                     [typeDefs |-> lastCall.decl.typeDefs,
                      providerDefs |-> lastCall.decl.providerDefs,
                      objectDefs |-> lastCall.decl.objectDefs,
                      analysed |-> TRUE])
        objs == lastCall.decl.objectDefs
    IN \E k \in 1..Len(objs) :
           \/ \E t \in TagsIn(objs[k].value) : ~TypeDeclaredWithin(ds, Len(ds), t)
           \/ \E q \in ProtocolsIn(objs[k].value) :
                  ~ProtocolDeclaredWithin(ds, Len(ds), q)

\* C7: with dependency analysis enabled, construction fails if and only if
\* some named value's type dependency has no builder declaration, or some
\* protocol dependency has no resolver declaration, in the definition or an
\* ancestor within 32 hops.
C7_FailsIffDependencyUndeclared ==
    Analysed => (lastCall.threw <=> SomeDependencyUndeclared)

RECURSIVE HoldsNull(_)
HoldsNull(v) == v.k = "null" \/ \E j \in 1..Len(v.kids) : HoldsNull(v.kids[j])

\* What does hold of the constructor: besides an undeclared dependency, only
\* a null inside a declared value makes it fail.
FailsIffUndeclaredOrNull ==
    Analysed =>
        (lastCall.threw <=>
            \/ SomeDependencyUndeclared
            \/ \E k \in 1..Len(lastCall.decl.objectDefs) :
                   HoldsNull(lastCall.decl.objectDefs[k].value))

\* Construction with and without the analysis (SpecUnvalidated), on named
\* values that the analysis accepts and on named values it refuses.
UnvalidatedInputs ==
    { Declares(c.typeDefs, c.providerDefs, o) :
          c \in { Declares(<<>>, <<>>, <<>>), Declares(DeclT, DeclP, <<>>) },
          o \in { <<NamedObjectDef("A", TaggedT, {})>>,
                  <<NamedObjectDef("A", Obj("T", <<TaggedU>>), {})>>,
                  <<NamedObjectDef("A", Arr(<<RefP, Str(<<"x">>)>>), {})>>,
                  <<NamedObjectDef("A", Obj("T", <<Null>>), {})>>,
                  <<Refers("A", {"B"}), Refers("B", {"A"})>>,
                  <<Refers("A", {Undeclared})>> } }

NextUnvalidated ==
    \E d \in UnvalidatedInputs, enable \in BOOLEAN : Define(d, enable)

SpecUnvalidated == Init /\ [][NextUnvalidated]_vars

\* C18: a definition constructed with dependency analysis disabled is built
\* without any validation: construction succeeds whatever its named values
\* refer to (unrecognized types or protocols, undeclared or cyclic named
\* objects), and its declarations are kept as they were given.
C18_NoAnalysisNoValidation ==
    (lastCall.op = "def" /\ ~lastCall.enable)
        => /\ ~lastCall.threw
           /\ Len(chain) = lastCall.on
           /\ chain[Len(chain)].def =
                  [typeDefs |-> lastCall.decl.typeDefs,
                   providerDefs |-> lastCall.decl.providerDefs,
                   objectDefs |-> lastCall.decl.objectDefs,
                   analysed |-> FALSE]

\* Built without analysis under an analysed parent, with a named value of an
\* undeclared type or protocol, which the analysis would have refused.
C18_Witness ==
    /\ lastCall.op = "def" /\ ~lastCall.enable /\ ~lastCall.threw
    /\ Len(chain) = 2 /\ chain[1].def.analysed
    /\ SomeDependencyUndeclared
    /\ ScopedObjectContextDef(AncestorDefs, lastCall.decl.typeDefs,
                              lastCall.decl.providerDefs,
                              lastCall.decl.objectDefs, TRUE).err # ""

(***************************************************************************)
(* Lookups by name on a chain of definitions (SpecLookup): getTypeDef,     *)
(* getProviderDef and getNamedObjectDef with a budget of ancestor hops,    *)
(* on definitions whose declaration lists may repeat a name.               *)
(***************************************************************************)
LookupDefInputs ==
    { Declares(<<>>, <<>>, <<>>),
      Declares(<<TypeDef("T", 1)>>, <<ProviderDef(ProtoP, 1)>>,
               <<NamedObjectDef("A", Num(1), {})>>),
      Declares(<<TypeDef("T", 2)>>, <<>>, <<>>),
      Declares(<<>>, <<ProviderDef(ProtoP, 2)>>, <<NamedObjectDef("A", Num(2), {})>>),
      Declares(<<TypeDef("T", 3), TypeDef("U", 1), TypeDef("T", 4)>>,
               <<ProviderDef(ProtoP, 3), ProviderDef(ProtoP, 4)>>,
               <<NamedObjectDef("A", TaggedT, {}), NamedObjectDef("B", RefP, {}),
                 NamedObjectDef("A", Num(3), {})>>) }
LookupTypeNames == {"T", "U"}
LookupNames == {"A", "B"}
Budgets == 0..MaxLookupDefs

\* definition.getTypeDef(typeName, maxDepth) on definition i of the chain.
GetTypeDef(i, typeName, maxDepth) ==
    /\ lastCall' = [NoCall EXCEPT !.op = "getTypeDef", !.on = i,
                       !.name = typeName, !.budget = maxDepth,
                       !.typeDef = getTypeDef(Defs(chain), i, typeName, maxDepth)]
    /\ UNCHANGED <<chain, cache, pending>>

GetProviderDef(i, protocolName, maxDepth) ==
    /\ lastCall' = [NoCall EXCEPT !.op = "getProviderDef", !.on = i,
                       !.protocol = protocolName, !.budget = maxDepth,
                       !.providerDef =
                           getProviderDef(Defs(chain), i, protocolName, maxDepth)]
    /\ UNCHANGED <<chain, cache, pending>>

GetNamedObjectDef(i, name, maxDepth) ==
    /\ lastCall' = [NoCall EXCEPT !.op = "getNamedObjectDef", !.on = i,
                       !.name = name, !.budget = maxDepth,
                       !.objectDef =
                           getNamedObjectDef(Defs(chain), i, name, maxDepth)]
    /\ UNCHANGED <<chain, cache, pending>>

NextLookup ==
    \/ \E d \in LookupDefInputs : DefineUpTo(MaxLookupDefs, d, TRUE)
    \/ \E i \in 1..Len(chain), typeName \in LookupTypeNames, k \in Budgets :
          GetTypeDef(i, typeName, k)
    \/ \E i \in 1..Len(chain), k \in Budgets : GetProviderDef(i, ProtoP, k)
    \/ \E i \in 1..Len(chain), name \in LookupNames, k \in Budgets :
          GetNamedObjectDef(i, name, k)

SpecLookup == Init /\ [][NextLookup]_vars

\* The definitions a lookup on definition i with budget k may consult: i and
\* at most k ancestors.
Span(i, k) == {j \in 1..i : i - j <= k}

\* The positions in a declaration list of the declarations of a key.
TypePositions(i, t) ==
    {p \in 1..Len(chain[i].def.typeDefs) : chain[i].def.typeDefs[p].typeName = t}
ProviderPositions(i, q) ==
    {p \in 1..Len(chain[i].def.providerDefs) :
        chain[i].def.providerDefs[p].protocol = q}
ObjectPositions(i, n) ==
    {p \in 1..Len(chain[i].def.objectDefs) : chain[i].def.objectDefs[p].name = n}

\* C15: getTypeDef, getProviderDef and getNamedObjectDef with budget k
\* return the declaration of the nearest definition, among the definition
\* and at most k of its ancestors, that declares the name, and not-found
\* when none of these does, whatever definitions farther up declare.
C15_NearestWithinBudget ==
    LET i == lastCall.on
        k == lastCall.budget
    IN /\ lastCall.op = "getTypeDef" =>
              LET S == {j \in Span(i, k) : DeclaresType(j, lastCall.name)} IN
              IF S = {} THEN lastCall.typeDef = NullTypeDef
              ELSE \E p \in TypePositions(Highest(S), lastCall.name) :
                       lastCall.typeDef = chain[Highest(S)].def.typeDefs[p]
       /\ lastCall.op = "getProviderDef" =>
              LET S == {j \in Span(i, k) : DeclaresProtocol(j, lastCall.protocol)} IN
              IF S = {} THEN lastCall.providerDef = NullProviderDef
              ELSE \E p \in ProviderPositions(Highest(S), lastCall.protocol) :
                       lastCall.providerDef = chain[Highest(S)].def.providerDefs[p]
       /\ lastCall.op = "getNamedObjectDef" =>
              LET S == {j \in Span(i, k) : DeclaresObject(j, lastCall.name)} IN
              IF S = {} THEN lastCall.objectDef = NullObjectDef
              ELSE /\ lastCall.objectDef.at = Highest(S)
                   /\ lastCall.objectDef.pos \in ObjectPositions(Highest(S), lastCall.name)

\* A lookup with budget 1 on the third definition found nothing though the
\* first definition declares the type.
C15_Witness ==
    /\ lastCall.op = "getTypeDef" /\ lastCall.on = 3 /\ lastCall.budget = 1
    /\ lastCall.typeDef = NullTypeDef
    /\ DeclaresType(1, lastCall.name)
    /\ ~DeclaresType(2, lastCall.name) /\ ~DeclaresType(3, lastCall.name)

\* Some type name, protocol or object name is declared more than once.
HasDuplicates(d) ==
    \/ \E p, q \in 1..Len(d.typeDefs) :
           p < q /\ d.typeDefs[p].typeName = d.typeDefs[q].typeName
    \/ \E p, q \in 1..Len(d.providerDefs) :
           p < q /\ d.providerDefs[p].protocol = d.providerDefs[q].protocol
    \/ \E p, q \in 1..Len(d.objectDefs) :
           p < q /\ d.objectDefs[p].name = d.objectDefs[q].name

\* C19: when a declaration sequence given to the constructor repeats a type
\* name, a protocol or an object name, construction does not fail (every
\* dependency of the named values being declared) and the lookup of a name
\* on the new definition returns the last declaration of that name.
C19_DuplicatesLastWins ==
    ( /\ lastCall.op = "def"
      /\ HasDuplicates(lastCall.decl)
      /\ ~SomeDependencyUndeclared )
    => /\ ~lastCall.threw
       /\ Len(chain) = lastCall.on
       /\ LET i == Len(chain)
              ds == Defs(chain)
          IN /\ \A t \in LookupTypeNames :
                    TypePositions(i, t) # {} =>
                        getTypeDef(ds, i, t, 0)
                            = lastCall.decl.typeDefs[Highest(TypePositions(i, t))]
             /\ ProviderPositions(i, ProtoP) # {} =>
                    getProviderDef(ds, i, ProtoP, 0)
                        = lastCall.decl.providerDefs[
                              Highest(ProviderPositions(i, ProtoP))]
             /\ \A n \in LookupNames :
                    ObjectPositions(i, n) # {} =>
                        getNamedObjectDef(ds, i, n, 0)
                            = [pos |-> Highest(ObjectPositions(i, n)), at |-> i]

\* An analysed definition whose three lists each repeat a name, under a
\* parent that declares the same names.
C19_Witness ==
    /\ lastCall.op = "def" /\ lastCall.enable /\ ~lastCall.threw
    /\ Len(chain) = 2
    /\ Cardinality(TypePositions(2, "T")) = 2
    /\ Cardinality(ProviderPositions(2, ProtoP)) = 2
    /\ Cardinality(ObjectPositions(2, "A")) = 2
    /\ DeclaresType(1, "T") /\ DeclaresObject(1, "A")
    /\ getTypeDef(Defs(chain), 2, "T", 0).ctor = 4

(***************************************************************************)
(* Two get calls on one scope taken step by step (SpecInterleaved): the    *)
(* lookup of the caches with the needsUpdate decision, the create of the   *)
(* rebuild, and the insert into the scope's own cache.  A call in progress *)
(* is [pc, this, name, found, rebuild, value, threw, overwrote, ret].      *)
(***************************************************************************)
InterleavedScopeInputs ==
    { Declares(<<>>, <<>>, <<>>),
      Declares(DeclT, <<>>, <<>>),
      Declares(<<>>, DeclP, <<>>),
      Declares(DeclT, <<>>, DeclBaseT),
      Declares(<<>>, DeclP, DeclBaseP) }

NewCall(this, name) ==
    [pc |-> "lookup", this |-> this, name |-> name, found |-> NoObject,
     rebuild |-> FALSE, value |-> Null, threw |-> FALSE, overwrote |-> FALSE,
     ret |-> NoObject]

RECURSIVE findInParents(_, _, _, _)
\* Lines 223-243 without the rebuild: the first ancestor, from `parent` up,
\* whose cache holds the name, and the depth it was found at (hit 0 when no
\* ancestor holds it).
findInParents(regs, name, parent, depth) ==
    IF parent = 0 THEN [hit |-> 0, depth |-> depth]
    ELSE IF registryGet(regs[parent], name).present
    THEN [hit |-> parent, depth |-> depth]
    ELSE findInParents(regs, name, parent - 1, depth + 1)

\* No get is in progress: a scope is constructed.
NewScopeIdle(label, d) ==
    /\ pending = <<>>
    /\ NewScope(label, d.typeDefs, d.providerDefs, d.objectDefs)

\* Two callers call get(name) on scope `this`.
BeginGets(this, name) ==
    /\ pending = <<>>
    /\ pending' = <<NewCall(this, name), NewCall(this, name)>>
    /\ UNCHANGED <<chain, cache, lastCall>>

\* Lines 217-231: the lookup in the own cache, then in the ancestors', and
\* the needsUpdate decision.
GetLookup(p) ==
    /\ pending[p].pc = "lookup"
    /\ LET c == pending[p]
           own == registryGet(cache[c.this], c.name)
           f == findInParents(cache, c.name, c.this - 1, 1)
           entry == registryGet(cache[f.hit], c.name)
       IN pending' =
              [pending EXCEPT ![p] =
                  IF own.present THEN [c EXCEPT !.pc = "done", !.ret = own]
                  ELSE IF f.hit = 0 THEN [c EXCEPT !.pc = "done"]
                  ELSE IF needsUpdate(chain, c.this, entry, f.depth)
                  THEN [c EXCEPT !.pc = "create", !.found = entry,
                                 !.rebuild = TRUE]
                  ELSE [c EXCEPT !.pc = "done", !.ret = entry]]
    /\ UNCHANGED <<chain, cache, lastCall>>

\* Line 234: this.create(namedObject.def.value).
GetCreate(p) ==
    /\ pending[p].pc = "create"
    /\ LET c == pending[p]
           r == create(chain, c.this, DefOf(chain, c.found).value)
       IN pending' =
              [pending EXCEPT ![p] =
                  IF r.threw THEN [c EXCEPT !.pc = "done", !.threw = TRUE]
                  ELSE [c EXCEPT !.pc = "insert", !.value = r.value]]
    /\ UNCHANGED <<chain, cache, lastCall>>

\* Mutant of GetInsert: the rebuilt object keeps the label of the object it
\* was rebuilt from.
GetInsertKeepsLabel(p) ==
    /\ pending[p].pc = "insert"
    /\ LET c == pending[p]
           namedObject == NamedObject(c.found.at, c.found.pos, c.value,
                                      c.found.scope)
       IN /\ cache' = [cache EXCEPT ![c.this][c.name] = namedObject]
          /\ pending' =
                 [pending EXCEPT ![p] =
                     [c EXCEPT !.pc = "done", !.ret = namedObject,
                               !.overwrote = cache[c.this][c.name].present]]
    /\ UNCHANGED <<chain, lastCall>>

\* Lines 232-240: the new object, its insert into the own cache, the return.
GetInsert(p) ==
    /\ pending[p].pc = "insert"
    /\ LET c == pending[p]
           namedObject == NamedObject(c.found.at, c.found.pos, c.value,
                                      chain[c.this].label)
       IN /\ cache' = [cache EXCEPT ![c.this][c.name] = namedObject]
          /\ pending' =
                 [pending EXCEPT ![p] =
                     [c EXCEPT !.pc = "done", !.ret = namedObject,
                               !.overwrote = cache[c.this][c.name].present]]
    /\ UNCHANGED <<chain, lastCall>>

NextInterleaved ==
    \/ \E label \in {Labels[r] : r \in 1..Len(Labels)},
          d \in InterleavedScopeInputs : NewScopeIdle(label, d)
    \/ \E this \in 1..Len(chain), name \in Names : BeginGets(this, name)
    \/ \E p \in 1..Len(pending) : GetLookup(p)
    \/ \E p \in 1..Len(pending) : GetCreate(p)
    \/ \E p \in 1..Len(pending) : GetInsert(p)

SpecInterleaved == Init /\ [][NextInterleaved]_vars

\* Both calls have returned, and both had to rebuild.
BothRebuilt ==
    /\ Len(pending) = 2
    /\ \A p \in 1..2 : pending[p].pc = "done" /\ pending[p].rebuild

\* What one get(name) alone on scope `this` inserts when it rebuilds the
\* entry of the nearest ancestor that holds the name.
SequentialInsert(this, name) ==
    LET h == Highest({i \in 1..(this - 1) : registryGet(cache[i], name).present})
        entry == cache[h][name]
    IN NamedObject(entry.at, entry.pos,
                   create(chain, this, DefOf(chain, entry).value).value,
                   chain[this].label)

ExtractLeaves == { Null, Num(1), Bool(TRUE), NotRef, NoProtocol, RefP, RefQ }
ExtractLevel1 ==
    { Obj(t, <<a>>) : t \in {"", "T", "U"}, a \in ExtractLeaves }
        \cup { Obj(t, <<>>) : t \in {"", "T", "U"} }
        \cup { Arr(<<a, b>>) : a, b \in {Null, Num(1), NotRef, RefP} }
        \cup { Arr(<<>>) }
ExtractLevel2 ==
    { Obj(t, <<x>>) : t \in {"", "T"}, x \in ExtractLevel1 }
        \cup { Arr(<<x, RefQ>>) : x \in ExtractLevel1 }
ExtractInputs == ExtractLeaves \cup ExtractLevel1 \cup ExtractLevel2

\* ScopedObjectContextDef.analyzeDirectDependencies(dep, jsValue) with dep a
\* new ObjectContextDependency().
AnalyzeDirect(jsValue) ==
    LET a == analyzeDirectDependencies([dep |-> NoDeps, threw |-> FALSE], jsValue)
    IN /\ lastCall' = [NoCall EXCEPT !.op = "analyze", !.input = jsValue,
                          !.threw = a.threw, !.deps = a.dep]
       /\ UNCHANGED <<chain, cache, pending>>

NextExtract == \E jsValue \in ExtractInputs : AnalyzeDirect(jsValue)

SpecExtract == Init /\ [][NextExtract]_vars

\* C24: direct dependency extraction over a tree of scalars (null among
\* them), tagged objects, untagged objects and sequences completes without
\* error and records exactly the type tags carried by objects anywhere in
\* the tree and exactly the protocols of the reference strings anywhere in
\* the tree.
C24_ExtractionExactAndTotal ==
    lastCall.op = "analyze" =>
        /\ ~lastCall.threw
        /\ lastCall.deps.typeDependencies = TagsIn(lastCall.input)
        /\ lastCall.deps.protocolDependencies = ProtocolsIn(lastCall.input)

\* What does hold: extraction fails exactly on the trees that hold a null,
\* and on every other tree records exactly the tags and the protocols; no
\* named-object dependency is ever recorded.
ExtractionExactUnlessNull ==
    lastCall.op = "analyze" =>
        /\ lastCall.threw <=> HoldsNull(lastCall.input)
        /\ ~lastCall.threw =>
               /\ lastCall.deps.typeDependencies = TagsIn(lastCall.input)
               /\ lastCall.deps.protocolDependencies = ProtocolsIn(lastCall.input)
        /\ lastCall.deps.objectDependencies = {}

(***************************************************************************)
(* The closure of the named-object dependencies taken round by round       *)
(* (SpecClosure): analyzeNamedObjectDependencies on a definition without   *)
(* parent whose three declarations refer to each other in every way.  The  *)
(* analysis in progress is pending[1] = [pc, st], pc being "rounds" while  *)
(* the while loop runs, "done" after it and "threw" when it threw.         *)
(***************************************************************************)
ClosureNames == {"A", "B", "C"}
ClosureDirects == (SUBSET ClosureNames) \cup {{Undeclared}}
ClosureInputs ==
    { <<Refers("A", a), Refers("B", b), Refers("C", c)>> :
          a \in ClosureDirects, b \in ClosureDirects, c \in ClosureDirects }

\* Lines 431-473: the first pass and the records to resolve.
BeginAnalysis(objs) ==
    /\ pending = <<>>
    /\ LET ds == <<[typeDefs |-> <<>>, providerDefs |-> <<>>,
                    objectDefs |-> objs, analysed |-> TRUE]>>
           p1 == firstPass(ds, 1, objs, 1)
           st0 == [objs |-> p1.objs, resolved |-> <<>>, toResolve |-> <<>>,
                   remaining |-> <<>>, resolvedThisRound |-> 0, rounds |-> 0,
                   err |-> p1.err]
       IN pending' =
              IF p1.err # "" THEN <<[pc |-> "threw", st |-> st0]>>
              ELSE <<[pc |-> "rounds", st |-> createToResolve(st0, 1)]>>
    /\ UNCHANGED <<chain, cache, lastCall>>

\* Lines 476-507: one iteration of while (toResolve.length != 0).
Round ==
    /\ pending # <<>>
    /\ pending[1].pc = "rounds"
    /\ Len(pending[1].st.toResolve) # 0
    /\ LET st1 == oneRound(pending[1].st) IN
       pending' = <<[pc |-> IF st1.err # "" THEN "threw" ELSE "rounds",
                     st |-> st1]>>
    /\ UNCHANGED <<chain, cache, lastCall>>

\* Line 476: the loop condition fails and the analysis returns.
LoopExit ==
    /\ pending # <<>>
    /\ pending[1].pc = "rounds"
    /\ Len(pending[1].st.toResolve) = 0
    /\ pending' = <<[pending[1] EXCEPT !.pc = "done"]>>
    /\ UNCHANGED <<chain, cache, lastCall>>

NextClosure ==
    \/ \E objs \in ClosureInputs : BeginAnalysis(objs)
    \/ Round
    \/ LoopExit

SpecClosure == Init /\ [][NextClosure]_vars

\* The loop is run to its end: a round that can be taken is taken.
SpecClosureFair == SpecClosure /\ WF_vars(Round) /\ WF_vars(LoopExit)

\* C25: the multi-round resolution terminates for every set of
\* declarations: each round either takes at least one record off the list
\* of records to resolve or ends the construction with an error, and every
\* analysis that was started ends, done or thrown.
C25_ClosureTerminates ==
    /\ [][ ( /\ pending # <<>> /\ pending[1].pc = "rounds"
             /\ Len(pending[1].st.toResolve) # 0 )
           => \/ pending'[1].pc = "threw"
              \/ Len(pending'[1].st.toResolve) < Len(pending[1].st.toResolve)
         ]_vars
    /\ (pending # <<>>) ~> (pending # <<>> /\ pending[1].pc \in {"done", "threw"})

\* The analysis of declarations that depend on each other in a cycle took a
\* round and ended.
C25_Witness ==
    /\ pending # <<>>
    /\ pending[1].pc = "done"
    /\ pending[1].st.rounds >= 1
    /\ Cyclic(pending[1].st.objs)

====
